---- MODULE Spec2Model ----
(***************************************************************************)
(* Model of the ECG analysis core of holter-medical-software:              *)
(*   src/core/cardiac_analysis/cardiac_analyzer.py  (CardiacAnalyzer)      *)
(*   src/core/signal_processing/signal_processor.py (SignalProcessor)      *)
(*                                                                         *)
(* Samples are integers.  Real-valued quantities are exact rationals       *)
(* <<num, den>>; a denominator 0 with a positive numerator stands for the  *)
(* IEEE +inf that numpy produces on division by zero.  Sequence indices    *)
(* stored in the state are the 0-based indices of the Python code.         *)
(***************************************************************************)
EXTENDS Integers, Sequences, FiniteSets, TLC

\* ------------------------------------------------------------------ bounds
\* Longest segment (and longest repeated beat) enumerated sample by sample.
MaxLen == 5

\* -------------------------------------------------------- program constants
DefaultMinHr == 40
DefaultMaxHr == 200
BradycardiaLimit == 60
TachycardiaLimit == 100
ConfidencePlaceholder == 85
QualityPlaceholder == 95
ButterOrder == 4
LowpassCutoff == 40
NotchFreq == 50
\* highpass_cutoff = 0.5 Hz, kept as the rational 1/2
HighpassCutoff == <<1, 2>>

\* ------------------------------------------------------------------ inputs
\* Sample amplitudes: the baseline, a small deflection, and a tall beat.
Amps == {-1, 1, 6}

\* Sample rates handed to the constructors (no validation there): invalid
\* ones (<= 0), small ones that spread heart rates over the clamp range, and
\* acquisition rates for which the filter cutoffs are (partly) in range.
SampleRates == {-1, 0, 2, 3, 5, 100, 360}

\* Compression ratios <<num, den>>, dyadic so that the float product
\* len * ratio is exact: -1/4, 0, 1/4, 1/2, 3/4, 1 and 3/2.
Ratios == {<<0 - 1, 4>>, <<0, 1>>, <<1, 4>>, <<1, 2>>, <<3, 4>>, <<1, 1>>, <<3, 2>>}

NoResult == [none |-> TRUE]

\* ---------------------------------------------------------------- rationals
RatLess(a, b) == a[1] * b[2] < b[1] * a[2]
RatEq(a, b) == a[1] * b[2] = b[1] * a[2]
RatLeq(a, b) == a[1] * b[2] <= b[1] * a[2]
Rat(n) == <<n, 1>>

\* Python's s[i] for a 0-based index i.
At(s, i) == s[i + 1]

RECURSIVE SumSeq(_)
SumSeq(s) == IF s = <<>> THEN 0 ELSE Head(s) + SumSeq(Tail(s))

\* ------------------------------------------------------------ numpy helpers
\* np.diff: consecutive differences.
np_diff(s) == [k \in 1..(Len(s) - 1) |-> s[k + 1] - s[k]]

\* np.std(data) > 2 * x is decided without square roots.  numpy computes
\* mean = S/n, the deviations x_i - mean, and std = sqrt(mean(dev^2)).  With
\* D = sum (n*x_i - S)^2 this is std^2 = D / n^3.
RECURSIVE SumSqDev(_, _, _)
SumSqDev(s, n, S) ==
    IF s = <<>> THEN 0
    ELSE (n * Head(s) - S) * (n * Head(s) - S) + SumSqDev(Tail(s), n, S)

\* x > np.std(data) * 0.5   (data non-empty; std >= 0, so x <= 0 never does)
ExceedsThreshold(x, data) ==
    LET n == Len(data)
        D == SumSqDev(data, n, SumSeq(data))
    IN  x > 0 /\ 4 * x * x * n * n * n > D

\* --------------------------------------------------------- CardiacAnalyzer
\* The loop of _detect_r_peaks from index i up to len(ecg_data) - 2,
\* appending to the list `acc`.
RECURSIVE DetectLoop(_, _, _)
DetectLoop(ecg_data, i, acc) ==
    IF i > Len(ecg_data) - 2 THEN acc
    ELSE DetectLoop(ecg_data, i + 1,
            IF /\ At(ecg_data, i) > At(ecg_data, i - 1)
               /\ At(ecg_data, i) > At(ecg_data, i + 1)
               /\ ExceedsThreshold(At(ecg_data, i), ecg_data)
            THEN Append(acc, i) ELSE acc)

\* A variant that accepts a sample equal to its right neighbour (>=).
RECURSIVE DetectLoopPlateau(_, _, _)
DetectLoopPlateau(ecg_data, i, acc) ==
    IF i > Len(ecg_data) - 2 THEN acc
    ELSE DetectLoopPlateau(ecg_data, i + 1,
            IF /\ At(ecg_data, i) > At(ecg_data, i - 1)
               /\ At(ecg_data, i) >= At(ecg_data, i + 1)
               /\ ExceedsThreshold(At(ecg_data, i), ecg_data)
            THEN Append(acc, i) ELSE acc)

detect_r_peaks_plateau(ecg_data) == DetectLoopPlateau(ecg_data, 1, <<>>)

\* A variant that inserts each new peak at the front of the list.
RECURSIVE DetectLoopPrepend(_, _, _)
DetectLoopPrepend(ecg_data, i, acc) ==
    IF i > Len(ecg_data) - 2 THEN acc
    ELSE DetectLoopPrepend(ecg_data, i + 1,
            IF /\ At(ecg_data, i) > At(ecg_data, i - 1)
               /\ At(ecg_data, i) > At(ecg_data, i + 1)
               /\ ExceedsThreshold(At(ecg_data, i), ecg_data)
            THEN <<i>> \o acc ELSE acc)

detect_r_peaks_prepend(ecg_data) == DetectLoopPrepend(ecg_data, 1, <<>>)

detect_r_peaks(ecg_data) == DetectLoop(ecg_data, 1, <<>>)

\* rr_intervals = np.diff(peaks) / sample_rate, each <<samples, sample_rate>>
rr_intervals_of(pk, fs) == [k \in 1..(Len(pk) - 1) |-> <<np_diff(pk)[k], fs>>]

\* np.mean of rationals sharing one denominator
np_mean(rr) == <<SumSeq([k \in 1..Len(rr) |-> rr[k][1]]), rr[1][2] * Len(rr)>>

\* q > 0 for a rational that may be +inf (den = 0) or have a negative den
Positive(q) == (q[2] = 0 /\ q[1] > 0) \/ q[1] * q[2] > 0

\* min(max(hr, lo), hi) as Python evaluates it
Clamp(hr, lo, hi) ==
    LET m == IF RatLess(hr, Rat(lo)) THEN Rat(lo) ELSE hr
    IN  IF RatLess(Rat(hi), m) THEN Rat(hi) ELSE m

\* A variant that takes the first RR interval instead of the mean.
unclamped_rate_first_interval(pk, fs) ==
    LET rr == rr_intervals_of(pk, fs)[1]
    IN  IF Positive(rr) THEN <<60 * rr[2], rr[1]>> ELSE Rat(0)

\* hr before clamping: 60.0 / mean_rr if mean_rr > 0 else 0.0
unclamped_rate(pk, fs) ==
    LET mean_rr == np_mean(rr_intervals_of(pk, fs))
    IN  IF Positive(mean_rr) THEN <<60 * mean_rr[2], mean_rr[1]>> ELSE Rat(0)

\* A variant whose guard is len(peaks) < 1: a single peak then gives an
\* empty rr_intervals, mean nan, hr 0.0, and the clamp lifts it to min_hr.
calculate_heart_rate_guard_off_by_one(ecg_data, fs, min_hr, max_hr) ==
    LET pk == detect_r_peaks(ecg_data)
    IN  IF Len(pk) < 1 THEN Rat(0)
        ELSE IF Len(pk) = 1 THEN Clamp(Rat(0), min_hr, max_hr)
        ELSE Clamp(unclamped_rate(pk, fs), min_hr, max_hr)

calculate_heart_rate(ecg_data, fs, min_hr, max_hr) ==
    LET pk == detect_r_peaks(ecg_data)
    IN  IF Len(pk) < 2 THEN Rat(0)
        ELSE Clamp(unclamped_rate(pk, fs), min_hr, max_hr)

\* A variant with the lower comparison written <=.
classify_rhythm_inclusive(ecg_data, heart_rate) ==
    IF RatLeq(heart_rate, Rat(BradycardiaLimit)) THEN "bradycardia"
    ELSE IF RatLess(Rat(TachycardiaLimit), heart_rate) THEN "tachycardia"
    ELSE "normal"

classify_rhythm(ecg_data, heart_rate) ==
    IF RatLess(heart_rate, Rat(BradycardiaLimit)) THEN "bradycardia"
    ELSE IF RatLess(Rat(TachycardiaLimit), heart_rate) THEN "tachycardia"
    ELSE "normal"

\* confidence in hundredths
calculate_confidence(ecg_data, rhythm) == ConfidencePlaceholder

detect_abnormalities(ecg_data) == <<>>

\* A variant whose loop is range(1, len(ecg_data)): ecg_data[i+1] then
\* indexes one past the end on the last iteration.
analyze_raises_loop_to_len(ecg_data) ==
    IF \E i \in 1..(Len(ecg_data) - 1) : i + 1 > Len(ecg_data) - 1
    THEN "IndexError" ELSE "none"

\* The exception analyze_ecg_segment raises, "none" when it returns.  Its
\* only operations that can raise are the index expressions of the peak loop
\* over range(1, len(ecg_data) - 1); numpy's std of an empty array, division
\* by a zero sample rate and mean of an empty array warn and give nan or inf,
\* and 60.0 / mean_rr is guarded by mean_rr > 0.
analyze_raises(ecg_data) ==
    IF \E i \in 1..(Len(ecg_data) - 2) : i + 1 > Len(ecg_data) - 1
    THEN "IndexError" ELSE "none"

\* --------------------------------------------------------- SignalProcessor
\* The outcome of a processing stage: the exception raised ("none" when the
\* stage returns) and the length of the array it returns.  The filtered
\* sample values are real numbers produced by scipy and are not represented.
Returned(n) == [raised |-> "none", len |-> n]
Raised(e) == [raised |-> e, len |-> 0]

\* cutoff / nyquist with nyquist = sample_rate / 2, for a cutoff <<num, den>>
Normalised(cutoff, fs) == <<2 * cutoff[1], cutoff[2] * fs>>

\* scipy's design check on a digital critical frequency: 0 < Wn < 1
WnInRange(wn) == wn[2] > 0 /\ 0 < wn[1] /\ wn[1] < wn[2]

\* signal.filtfilt(b, a, data) with ntaps = max(len(a), len(b)): the default
\* edge padding is 3 * ntaps samples at each end, the input must be longer
\* than that, and the padding is stripped from the result.
filtfilt(ntaps, n) ==
    LET edge == 3 * ntaps
        ext == n + 2 * edge
    IN  IF n <= edge THEN Raised("ValueError") ELSE Returned(ext - 2 * edge)

\* butter(4, Wn) gives ButterOrder + 1 coefficients
butter_stage(cutoff, n, fs) ==
    IF fs = 0 THEN Raised("ZeroDivisionError")
    ELSE IF ~WnInRange(Normalised(cutoff, fs)) THEN Raised("ValueError")
    ELSE filtfilt(ButterOrder + 1, n)

apply_highpass_filter(n, fs) == butter_stage(HighpassCutoff, n, fs)

apply_lowpass_filter(n, fs) == butter_stage(Rat(LowpassCutoff), n, fs)

\* iirnotch(freq, 30) gives a second-order section: 3 coefficients
apply_notch_filter(n, fs) ==
    IF fs = 0 THEN Raised("ZeroDivisionError")
    ELSE IF ~WnInRange(Normalised(Rat(NotchFreq), fs)) THEN Raised("ValueError")
    ELSE filtfilt(3, n)

\* (data - mean) / std, or data itself: element-wise, same length
normalize_amplitude(n) == Returned(n)

process_raw_signal(raw_data, fs) ==
    LET hp == apply_highpass_filter(Len(raw_data), fs)
        lp == apply_lowpass_filter(hp.len, fs)
        nt == apply_notch_filter(lp.len, fs)
    IN  IF hp.raised # "none" THEN hp
        ELSE IF lp.raised # "none" THEN lp
        ELSE IF nt.raised # "none" THEN nt
        ELSE normalize_amplitude(nt.len)

\* int(x) for a rational x = p/q, q > 0: truncation toward zero
IntTrunc(p, q) == IF p >= 0 THEN p \div q ELSE 0 - ((0 - p) \div q)

\* A variant that leaves the end point out (endpoint=False).
np_linspace_half_open(stop, num) ==
    [k \in 1..num |-> ((k - 1) * stop) \div num]

\* np.linspace(0, stop, num, dtype=int) for num >= 0: num evenly spaced
\* values from 0 to stop inclusive, floored to integers.
np_linspace(stop, num) ==
    [k \in 1..num |-> IF num = 1 THEN 0 ELSE ((k - 1) * stop) \div (num - 1)]

\* A variant that drops the end point (one sample fewer than compressed_size).
wavelet_compression_no_endpoint(data, ratio) ==
    LET compressed_size == IntTrunc(Len(data) * ratio[1], ratio[2])
        indices == np_linspace(Len(data) - 1, compressed_size)
        kept == IF compressed_size > 0 THEN compressed_size - 1 ELSE 0
    IN  IF compressed_size < 0 THEN [raised |-> "ValueError"]
        ELSE [raised |-> "none",
              data |-> [k \in 1..kept |-> At(data, indices[k])],
              params |-> [indices |-> SubSeq(indices, 1, kept)],
              quality |-> QualityPlaceholder]

\* Returns the dict of _wavelet_compression, or raises from np.linspace when
\* compressed_size is negative.
wavelet_compression(data, ratio) ==
    LET compressed_size == IntTrunc(Len(data) * ratio[1], ratio[2])
        indices == np_linspace(Len(data) - 1, compressed_size)
    IN  IF compressed_size < 0 THEN [raised |-> "ValueError"]
        ELSE [raised |-> "none",
              data |-> [k \in 1..compressed_size |-> At(data, indices[k])],
              params |-> [indices |-> indices],
              quality |-> QualityPlaceholder]

compress_ecg_data(ecg_data, compression_ratio) ==
    LET compressed_data == wavelet_compression(ecg_data, compression_ratio)
    IN  IF compressed_data.raised # "none" THEN compressed_data
        ELSE [raised |-> "none",
              data |-> compressed_data.data,
              metadata |-> [original_size |-> Len(ecg_data),
                            compressed_size |-> Len(compressed_data.data),
                            compression_ratio |-> compression_ratio,
                            method |-> "wavelet",
                            quality_metric |-> compressed_data.quality],
              reconstruction_params |-> compressed_data.params]

\* ------------------------------------------------------------------ inputs
Tile(beat, n) == [i \in 1..n |-> beat[((i - 1) % Len(beat)) + 1]]

ShortSegments == UNION {[1..k -> Amps] : k \in 0..MaxLen}

\* Lengths around the edge padding of the Butterworth stages.
EdgePad == 3 * (ButterOrder + 1)
LongLens == {EdgePad, EdgePad + 1}

LongSegments == {Tile(b, n) : b \in ShortSegments \ {<<>>}, n \in LongLens}

Segments == ShortSegments \cup LongSegments

\* ------------------------------------------------------------------- state
VARIABLES
    init_raised,        \* the exception the constructors raised, or "none"
    sample_rate,        \* self.sample_rate of analyzer and processor
    min_hr, max_hr,     \* CardiacAnalyzer configuration
    ecg,                \* the segment handed to the operations
    op,                 \* the call whose outcome the caller holds, or "none"
    raised,             \* the exception it raised, "none" when it returned
    peaks,              \* _calculate_heart_rate's peaks at its return
    rr_intervals,       \* its rr_intervals, <<>> when never computed
    result,             \* the AnalysisResult returned
    compression_ratio,  \* the ratio handed to compress_ecg_data
    artifact,           \* the dict returned by compress_ecg_data
    processed           \* the outcome of process_raw_signal

\* Concurrent analyses: workers that each run analyze_ecg_segment on their own
\* segment against the one shared CardiacAnalyzer, statement by statement.
VARIABLES
    w_pc,               \* per worker: the statement it is about to execute
    w_seg,              \* per worker: its ecg_data argument
    w_loc,              \* per worker: the locals of its call
    w_result,           \* per worker: the AnalysisResult it returned
    history             \* per segment: the first result returned, and a count

\* The AnalysisResult fields of one call's caller.
callVars == <<op, raised, peaks, rr_intervals, result, compression_ratio,
              artifact, processed>>

parVars == <<w_pc, w_seg, w_loc, w_result, history>>

\* HolterDriver: the object's attributes, the calling thread, the background
\* read threads and the device at the other end of the serial line.
VARIABLES
    status,             \* self.status, a DeviceStatus
    connection,         \* self.connection: "none", "open" or "closed"
    device_info,        \* self.device_info: "none" or "info"
    running,            \* self.running
    read_threads,       \* number of live threads executing _read_loop
    stale_thread,       \* one of them is followed: it was alive when disconnect was entered
    pc,                 \* where the calling thread is inside its call
    call,               \* the method the caller is in, or returned from last
    ret,                \* what that method returned ("none" while inside)
    blocks,             \* data_blocks of download_data
    rx,                 \* the connection's input buffer, oldest message first
    dev_pending,        \* messages the device has yet to put on the line
    last_cb,            \* the status last passed to on_status_changed
    note,               \* what the last step did: call entered, write, callback
    dl_sent,            \* data blocks the device sent for the last DOWNLOAD_DATA
    stolen              \* kinds of message _read_loop took since the last command

drvVars == <<status, connection, device_info, running, read_threads, stale_thread, pc, call, ret,
             blocks, rx, dev_pending, last_cb, note, dl_sent, stolen>>

coreVars == <<init_raised, sample_rate, min_hr, max_hr, ecg, callVars>>

\* DataStorage: the two tables of the SQLite database, the data directory,
\* and what the last call did.
VARIABLES
    patients,           \* table patients: a set of rows
    ecg_records,        \* table ecg_records: record_id -> row, or NoRow
    data_files,         \* data directory: record_id -> pickled samples, or NoFile
    db_locked,          \* a connection leaked by a failed INSERT still holds the lock
    last_patient,       \* patient_id -> the record last stored with success, or NoRow
    sto                 \* the last call: its name, arguments, return value

stoVars == <<patients, ecg_records, data_files, db_locked, last_patient, sto>>

vars == <<init_raised, sample_rate, min_hr, max_hr, ecg, op, raised, peaks, rr_intervals,
          result, compression_ratio, artifact, processed, parVars, drvVars, stoVars>>

PatientIds == {"p1", "p2"}

RecordIds == {"r1", "r2"}

NoRow == [none |-> TRUE]

NoFile == <<"missing">>

NoCall == [op |-> "none"]

StoIdle ==
    /\ patients = {}
    /\ ecg_records = [r \in RecordIds |-> NoRow]
    /\ data_files = [r \in RecordIds |-> NoFile]
    /\ db_locked = FALSE
    /\ last_patient = [q \in PatientIds |-> NoRow]
    /\ sto = NoCall

DeviceStatus == {"DISCONNECTED", "CONNECTING", "CONNECTED", "RECORDING",
                 "DOWNLOADING", "ERROR"}

\* How many data blocks a download holds at most.
MaxBlocks == 2

\* How many read threads may be alive at once.
MaxThreads == 2

\* How many stale messages may be around when a command is written.
MaxBacklog == 1

Msg(kind, n) == [kind |-> kind, n |-> n]

Quiet == [entered |-> "none", wrote |-> "none", notified |-> FALSE,
          rejected |-> FALSE, ended |-> FALSE]

DrvIdle ==
    /\ status = "DISCONNECTED"
    /\ connection = "none"
    /\ device_info = "none"
    /\ running = FALSE
    /\ read_threads = 0
    /\ stale_thread = FALSE
    /\ pc = "idle"
    /\ call = "none"
    /\ ret = "none"
    /\ blocks = <<>>
    /\ rx = <<>>
    /\ dev_pending = <<>>
    /\ last_cb = "none"
    /\ note = Quiet
    /\ dl_sent = <<>>
    /\ stolen = {}

Workers == {"w1", "w2"}

\* Segments handed to the workers: a flat line, two beats 2 samples apart,
\* two tall beats 3 samples apart.
ParSegments == {<<1, 1, 1>>,
                <<0 - 1, 1, 0 - 1, 1, 0 - 1>>,
                <<0 - 1, 6, 0 - 1, 0 - 1, 6, 0 - 1>>}

ParSampleRates == {2, 5}

\* How many returns per segment the history counts.
MaxRuns == 2

NoLocals == [none |-> TRUE]

ParIdle ==
    /\ w_pc = [w \in Workers |-> "idle"]
    /\ w_seg = [w \in Workers |-> <<>>]
    /\ w_loc = [w \in Workers |-> NoLocals]
    /\ w_result = [w \in Workers |-> NoResult]
    /\ history = [g \in ParSegments |-> [first |-> NoResult, runs |-> 0]]

Init ==
    /\ init_raised = "none"
    /\ sample_rate \in SampleRates
    /\ min_hr = DefaultMinHr
    /\ max_hr = DefaultMaxHr
    /\ ecg \in Segments
    /\ op = "none"
    /\ raised = "none"
    /\ peaks = <<>>
    /\ rr_intervals = <<>>
    /\ result = NoResult
    /\ compression_ratio = Rat(0)
    /\ artifact = NoResult
    /\ processed = NoResult
    /\ ParIdle
    /\ DrvIdle
    /\ StoIdle

AnalyzeEcgSegment ==
    LET heart_rate == calculate_heart_rate(ecg, sample_rate, min_hr, max_hr)
        rhythm == classify_rhythm(ecg, heart_rate)
        confidence == calculate_confidence(ecg, rhythm)
        abnormalities == detect_abnormalities(ecg)
        pk == detect_r_peaks(ecg)
        exc == analyze_raises(ecg)
    IN  /\ op = "none"
        /\ op' = "analyze"
        /\ raised' = exc
        /\ peaks' = IF exc = "none" THEN pk ELSE <<>>
        /\ rr_intervals' = IF exc # "none" \/ Len(pk) < 2 THEN <<>>
                           ELSE rr_intervals_of(pk, sample_rate)
        /\ result' = IF exc # "none" THEN NoResult
                     ELSE [heart_rate |-> heart_rate,
                           rhythm_type |-> rhythm,
                           confidence_score |-> confidence,
                           abnormalities |-> abnormalities,
                           timestamp |-> 0]
        /\ artifact' = NoResult
        /\ processed' = NoResult
        /\ UNCHANGED <<parVars, drvVars, stoVars, init_raised, sample_rate, min_hr, max_hr, ecg, compression_ratio>>

CompressEcgData ==
    \E ratio \in Ratios :
        LET out == compress_ecg_data(ecg, ratio)
        IN  /\ op = "none"
            /\ op' = "compress"
            /\ compression_ratio' = ratio
            /\ raised' = out.raised
            /\ artifact' = IF out.raised = "none"
                           THEN [data |-> out.data,
                                 metadata |-> out.metadata,
                                 reconstruction_params |-> out.reconstruction_params]
                           ELSE NoResult
            /\ peaks' = <<>>
            /\ rr_intervals' = <<>>
            /\ result' = NoResult
            /\ processed' = NoResult
            /\ UNCHANGED <<parVars, drvVars, stoVars, init_raised, sample_rate, min_hr, max_hr, ecg>>

ProcessRawSignal ==
    LET out == process_raw_signal(ecg, sample_rate)
    IN  /\ op = "none"
        /\ op' = "process"
        /\ raised' = out.raised
        /\ processed' = IF out.raised = "none" THEN [len |-> out.len] ELSE NoResult
        /\ peaks' = <<>>
        /\ rr_intervals' = <<>>
        /\ result' = NoResult
        /\ artifact' = NoResult
        /\ UNCHANGED <<parVars, drvVars, stoVars, init_raised, sample_rate, min_hr, max_hr, ecg, compression_ratio>>

\* The synchronous caller takes the returned value (or catches the exception)
\* and is ready for its next call on the segment; the core keeps nothing.
Handoff ==
    /\ op # "none"
    /\ op' = "none"
    /\ raised' = "none"
    /\ peaks' = <<>>
    /\ rr_intervals' = <<>>
    /\ result' = NoResult
    /\ compression_ratio' = Rat(0)
    /\ artifact' = NoResult
    /\ processed' = NoResult
    /\ UNCHANGED <<parVars, drvVars, stoVars, init_raised, sample_rate, min_hr, max_hr, ecg>>

Next ==
    \/ AnalyzeEcgSegment
    \/ CompressEcgData
    \/ ProcessRawSignal
    \/ Handoff

Spec == Init /\ [][Next]_vars

\* ------------------------------------------------------ concurrent analyses
ParInit ==
    /\ init_raised = "none"
    /\ sample_rate \in ParSampleRates
    /\ min_hr = DefaultMinHr
    /\ max_hr = DefaultMaxHr
    /\ ecg = <<>>
    /\ op = "none"
    /\ raised = "none"
    /\ peaks = <<>>
    /\ rr_intervals = <<>>
    /\ result = NoResult
    /\ compression_ratio = Rat(0)
    /\ artifact = NoResult
    /\ processed = NoResult
    /\ ParIdle
    /\ DrvIdle
    /\ StoIdle

\* What a worker's step leaves alone besides its own entries; the code of
\* the analysis assigns no attribute of self.
ParFrame == UNCHANGED <<coreVars, drvVars, stoVars>>

\* analyze_ecg_segment(ecg_data) is entered
StartAnalysis(w) ==
    \E seg \in ParSegments :
        /\ w_pc[w] = "idle"
        /\ w_pc' = [w_pc EXCEPT ![w] = "peaks"]
        /\ w_seg' = [w_seg EXCEPT ![w] = seg]
        /\ w_loc' = [w_loc EXCEPT ![w] = NoLocals]
        /\ w_result' = [w_result EXCEPT ![w] = NoResult]
        /\ UNCHANGED history
        /\ ParFrame

\* line 58: peaks = self._detect_r_peaks(ecg_data); lines 59-60: return 0.0
StepPeaks(w) ==
    LET pk == detect_r_peaks(w_seg[w])
    IN  /\ w_pc[w] = "peaks"
        /\ w_pc' = [w_pc EXCEPT ![w] = IF Len(pk) < 2 THEN "rhythm" ELSE "rate"]
        /\ w_loc' = [w_loc EXCEPT ![w] =
                        IF Len(pk) < 2 THEN [peaks |-> pk, heart_rate |-> Rat(0)]
                        ELSE [peaks |-> pk]]
        /\ UNCHANGED <<w_seg, w_result, history>>
        /\ ParFrame

\* lines 62-64: reads self.sample_rate
StepRate(w) ==
    /\ w_pc[w] = "rate"
    /\ w_pc' = [w_pc EXCEPT ![w] = "clamp"]
    /\ w_loc' = [w_loc EXCEPT ![w] =
                    [peaks |-> w_loc[w].peaks,
                     hr |-> unclamped_rate(w_loc[w].peaks, sample_rate)]]
    /\ UNCHANGED <<w_seg, w_result, history>>
    /\ ParFrame

\* A variant that keeps the last clamped rate (rounded down) as the new floor
\* self.min_hr.
StepClampAdaptive(w) ==
    LET c == Clamp(w_loc[w].hr, min_hr, max_hr)
    IN  /\ w_pc[w] = "clamp"
        /\ w_pc' = [w_pc EXCEPT ![w] = "rhythm"]
        /\ w_loc' = [w_loc EXCEPT ![w] =
                        [peaks |-> w_loc[w].peaks, heart_rate |-> c]]
        /\ min_hr' = c[1] \div c[2]
        /\ UNCHANGED <<w_seg, w_result, history>>
        /\ UNCHANGED <<init_raised, sample_rate, max_hr, ecg, callVars, drvVars, stoVars>>

\* line 66: reads self.min_hr and self.max_hr
StepClamp(w) ==
    /\ w_pc[w] = "clamp"
    /\ w_pc' = [w_pc EXCEPT ![w] = "rhythm"]
    /\ w_loc' = [w_loc EXCEPT ![w] =
                    [peaks |-> w_loc[w].peaks,
                     heart_rate |-> Clamp(w_loc[w].hr, min_hr, max_hr)]]
    /\ UNCHANGED <<w_seg, w_result, history>>
    /\ ParFrame

\* line 43
StepRhythm(w) ==
    /\ w_pc[w] = "rhythm"
    /\ w_pc' = [w_pc EXCEPT ![w] = "confidence"]
    /\ w_loc' = [w_loc EXCEPT ![w] =
                    [heart_rate |-> w_loc[w].heart_rate,
                     rhythm |-> classify_rhythm(w_seg[w], w_loc[w].heart_rate)]]
    /\ UNCHANGED <<w_seg, w_result, history>>
    /\ ParFrame

\* lines 44-45
StepConfidence(w) ==
    /\ w_pc[w] = "confidence"
    /\ w_pc' = [w_pc EXCEPT ![w] = "return"]
    /\ w_loc' = [w_loc EXCEPT ![w] =
                    [heart_rate |-> w_loc[w].heart_rate,
                     rhythm |-> w_loc[w].rhythm,
                     confidence |-> calculate_confidence(w_seg[w], w_loc[w].rhythm),
                     abnormalities |-> detect_abnormalities(w_seg[w])]]
    /\ UNCHANGED <<w_seg, w_result, history>>
    /\ ParFrame

\* the history entry of segment g after a call on it returned r
Recorded(g, r) ==
    [first |-> IF history[g].runs = 0 THEN r ELSE history[g].first,
     runs |-> IF history[g].runs < MaxRuns THEN history[g].runs + 1 ELSE MaxRuns]

\* A variant that stamps the result with a running call count instead of the
\* constant 0.0.
ReturnResultStamped(w) ==
    LET r == [heart_rate |-> w_loc[w].heart_rate,
              rhythm_type |-> w_loc[w].rhythm,
              confidence_score |-> w_loc[w].confidence,
              abnormalities |-> w_loc[w].abnormalities,
              timestamp |-> history[w_seg[w]].runs]
    IN  /\ w_pc[w] = "return"
        /\ w_pc' = [w_pc EXCEPT ![w] = "done"]
        /\ w_result' = [w_result EXCEPT ![w] = r]
        /\ w_loc' = [w_loc EXCEPT ![w] = NoLocals]
        /\ history' = [history EXCEPT ![w_seg[w]] = Recorded(w_seg[w], r)]
        /\ UNCHANGED w_seg
        /\ ParFrame

\* lines 47-53
ReturnResult(w) ==
    LET r == [heart_rate |-> w_loc[w].heart_rate,
              rhythm_type |-> w_loc[w].rhythm,
              confidence_score |-> w_loc[w].confidence,
              abnormalities |-> w_loc[w].abnormalities,
              timestamp |-> 0]
    IN  /\ w_pc[w] = "return"
        /\ w_pc' = [w_pc EXCEPT ![w] = "done"]
        /\ w_result' = [w_result EXCEPT ![w] = r]
        /\ w_loc' = [w_loc EXCEPT ![w] = NoLocals]
        /\ history' = [history EXCEPT ![w_seg[w]] = Recorded(w_seg[w], r)]
        /\ UNCHANGED w_seg
        /\ ParFrame

\* the worker's caller takes the result; the worker is free for another call
CollectResult(w) ==
    /\ w_pc[w] = "done"
    /\ w_pc' = [w_pc EXCEPT ![w] = "idle"]
    /\ w_result' = [w_result EXCEPT ![w] = NoResult]
    /\ UNCHANGED <<w_seg, w_loc, history>>
    /\ ParFrame

ParNext ==
    \E w \in Workers :
        \/ StartAnalysis(w)
        \/ StepPeaks(w)
        \/ StepRate(w)
        \/ StepClamp(w)
        \/ StepRhythm(w)
        \/ StepConfidence(w)
        \/ ReturnResult(w)
        \/ CollectResult(w)

SpecPar == ParInit /\ [][ParNext]_vars

\* ------------------------------------------------------------- HolterDriver
DrvInit ==
    /\ init_raised = "none"
    /\ sample_rate \in {r \in SampleRates : r >= 360}
    /\ min_hr = DefaultMinHr
    /\ max_hr = DefaultMaxHr
    /\ ecg = <<>>
    /\ op = "none"
    /\ raised = "none"
    /\ peaks = <<>>
    /\ rr_intervals = <<>>
    /\ result = NoResult
    /\ compression_ratio = Rat(0)
    /\ artifact = NoResult
    /\ processed = NoResult
    /\ ParIdle
    /\ DrvIdle
    /\ StoIdle

DrvFrame == UNCHANGED <<coreVars, parVars, stoVars>>

\* A variant of the guard that looks at the connection only.
is_connected_open_only == connection = "open"

\* _is_connected
is_connected ==
    /\ connection = "open"
    /\ status \in {"CONNECTED", "RECORDING"}

NoMsg == Msg("", 0)

\* The outcomes of one blocking read on the connection (readline, read(1024)):
\* the oldest message of the buffer; nothing, when the buffer stays empty
\* until the timeout; or an exception of the serial port.
ReadOutcomes ==
    (IF rx # <<>>
     THEN {[msg |-> Head(rx), rest |-> Tail(rx), exc |-> FALSE]}
     ELSE {[msg |-> NoMsg, rest |-> rx, exc |-> FALSE]})
    \cup {[msg |-> NoMsg, rest |-> rx, exc |-> TRUE]}

\* What the device answers to a command: the expected reply, a refusal, or
\* nothing at all.
Replies(cmd) ==
    IF cmd = "IDENTIFY" THEN {<<Msg("HOLTER", 0)>>, <<Msg("ERR", 0)>>, <<>>}
    ELSE IF cmd = "DOWNLOAD_DATA"
    THEN {[i \in 1..k |-> Msg("BLOCK", i)] \o <<Msg("END_DATA", 0)>> : k \in 0..MaxBlocks}
    ELSE {<<Msg("OK", 0)>>, <<Msg("ERR", 0)>>, <<>>}

Backlog == Len(rx) + Len(dev_pending)

\* connect, lines 57-59
Connect ==
    /\ pc = "idle"
    /\ read_threads < MaxThreads
    /\ call' = "connect"
    /\ ret' = "none"
    /\ status' = "CONNECTING"
    /\ last_cb' = "CONNECTING"
    /\ pc' = "c_open"
    /\ note' = [Quiet EXCEPT !.entered = "connect", !.notified = TRUE]
    /\ UNCHANGED <<connection, device_info, running, read_threads, stale_thread, blocks, rx,
                   dev_pending, dl_sent, stolen>>
    /\ DrvFrame

\* connect, lines 61-65 and _handshake line 187; or the except branch 85-89
ConnectOpen ==
    /\ pc = "c_open"
    /\ \/ /\ status' = "ERROR"
          /\ last_cb' = "ERROR"
          /\ ret' = "False"
          /\ pc' = "idle"
          /\ note' = [Quiet EXCEPT !.notified = TRUE]
          /\ UNCHANGED <<connection, rx, dev_pending, stolen>>
       \/ \E reply \in Replies("IDENTIFY") :
             /\ connection' = "open"
             /\ rx' = <<>>
             /\ dev_pending' = reply
             /\ stolen' = {}
             /\ pc' = "c_hs"
             /\ note' = [Quiet EXCEPT !.wrote = "IDENTIFY"]
             /\ UNCHANGED <<status, last_cb, ret>>
    /\ UNCHANGED <<device_info, running, read_threads, stale_thread, call, blocks, dl_sent>>
    /\ DrvFrame

\* _handshake lines 188-192, then connect lines 68-80, or line 82 and the
\* first statement of disconnect
ConnectHandshake ==
    /\ pc = "c_hs"
    /\ \E r \in ReadOutcomes :
          /\ rx' = r.rest
          /\ IF ~r.exc /\ r.msg.kind = "HOLTER"
             THEN /\ device_info' = "info"
                  /\ status' = "CONNECTED"
                  /\ running' = TRUE
                  /\ read_threads' = read_threads + 1
                  /\ UNCHANGED stale_thread
                  /\ last_cb' = "CONNECTED"
                  /\ ret' = "True"
                  /\ pc' = "idle"
                  /\ note' = [Quiet EXCEPT !.notified = TRUE]
             ELSE /\ running' = FALSE
                  /\ pc' = "d_join"
                  /\ note' = Quiet
                  /\ \E follow \in BOOLEAN :
                        stale_thread' = (stale_thread \/ (follow /\ read_threads > 0))
                  /\ UNCHANGED <<device_info, status, read_threads, last_cb, ret>>
    /\ UNCHANGED <<connection, call, blocks, dev_pending, dl_sent, stolen>>
    /\ DrvFrame

\* disconnect, line 93
Disconnect ==
    /\ pc = "idle"
    /\ call' = "disconnect"
    /\ ret' = "none"
    /\ running' = FALSE
    /\ pc' = "d_join"
    /\ note' = [Quiet EXCEPT !.entered = "disconnect"]
    /\ \E follow \in BOOLEAN :
          stale_thread' = (stale_thread \/ (follow /\ read_threads > 0))
    /\ UNCHANGED <<status, connection, device_info, read_threads, blocks, rx,
                   dev_pending, last_cb, dl_sent, stolen>>
    /\ DrvFrame

\* disconnect, lines 95-104: join returns when the thread has ended or after
\* its 2 s timeout; closing the port drops what is buffered.
DisconnectFinish ==
    /\ pc = "d_join"
    /\ IF connection = "open"
       THEN connection' = "closed" /\ rx' = <<>> /\ dev_pending' = <<>>
       ELSE UNCHANGED <<connection, rx, dev_pending>>
    /\ status' = "DISCONNECTED"
    /\ device_info' = "none"
    /\ last_cb' = "DISCONNECTED"
    /\ ret' = IF call = "connect" THEN "False" ELSE "None"
    /\ pc' = "idle"
    /\ note' = [Quiet EXCEPT !.notified = TRUE]
    /\ UNCHANGED <<running, read_threads, stale_thread, call, blocks, dl_sent, stolen>>
    /\ DrvFrame

\* start_recording / stop_recording up to the write: lines 108-114, 129-135
SendCommand(name, cmd, readpc) ==
    /\ call' = name
    /\ IF ~is_connected
       THEN /\ ret' = "False"
            /\ pc' = "idle"
            /\ note' = [Quiet EXCEPT !.entered = name, !.rejected = TRUE]
            /\ UNCHANGED <<dev_pending, stolen>>
       ELSE /\ Backlog <= MaxBacklog
            /\ \E reply \in Replies(cmd) : dev_pending' = dev_pending \o reply
            /\ stolen' = {}
            /\ ret' = "none"
            /\ pc' = readpc
            /\ note' = [Quiet EXCEPT !.entered = name, !.wrote = cmd]
    /\ UNCHANGED <<status, connection, device_info, running, read_threads, stale_thread, blocks,
                   rx, last_cb, dl_sent>>
    /\ DrvFrame

\* A variant that assigns the new status without telling the callback.
ReadReplySilent(entered) ==
    /\ \E r \in ReadOutcomes :
          /\ rx' = r.rest
          /\ IF ~r.exc /\ r.msg.kind = "OK"
             THEN /\ status' = entered
                  /\ ret' = "True"
             ELSE /\ ret' = "False"
                  /\ UNCHANGED status
    /\ pc' = "idle"
    /\ note' = Quiet
    /\ UNCHANGED <<connection, device_info, running, read_threads, stale_thread, call,
                   blocks, dev_pending, last_cb, dl_sent, stolen>>
    /\ DrvFrame

\* start_recording / stop_recording from the readline on: lines 115-125, 136-146
ReadReply(entered) ==
    /\ \E r \in ReadOutcomes :
          /\ rx' = r.rest
          /\ IF ~r.exc /\ r.msg.kind = "OK"
             THEN /\ status' = entered
                  /\ last_cb' = entered
                  /\ ret' = "True"
                  /\ note' = [Quiet EXCEPT !.notified = TRUE]
             ELSE /\ ret' = "False"
                  /\ note' = Quiet
                  /\ UNCHANGED <<status, last_cb>>
    /\ pc' = "idle"
    /\ UNCHANGED <<connection, device_info, running, read_threads, stale_thread, call, blocks,
                   dev_pending, dl_sent, stolen>>
    /\ DrvFrame

\* start_recording, lines 108-114
StartRecording ==
    /\ pc = "idle"
    /\ SendCommand("start_recording", "START_RECORDING", "s_read")

\* start_recording, lines 115-125
StartRecordingReply ==
    /\ pc = "s_read"
    /\ ReadReply("RECORDING")

\* stop_recording, lines 129-135
StopRecording ==
    /\ pc = "idle"
    /\ SendCommand("stop_recording", "STOP_RECORDING", "t_read")

\* stop_recording, lines 136-146
StopRecordingReply ==
    /\ pc = "t_read"
    /\ ReadReply("CONNECTED")

\* download_data, lines 150-159
DownloadData ==
    /\ pc = "idle"
    /\ call' = "download_data"
    /\ blocks' = <<>>
    /\ IF ~is_connected
       THEN /\ ret' = "List"
            /\ pc' = "idle"
            /\ note' = [Quiet EXCEPT !.entered = "download_data", !.rejected = TRUE]
            /\ UNCHANGED <<status, last_cb, dev_pending, dl_sent, stolen>>
       ELSE /\ Backlog <= MaxBacklog
            /\ status' = "DOWNLOADING"
            /\ last_cb' = "DOWNLOADING"
            /\ \E reply \in Replies("DOWNLOAD_DATA") : dev_pending' = dev_pending \o reply
            /\ dl_sent' = <<>>
            /\ stolen' = {}
            /\ ret' = "none"
            /\ pc' = "dl_read"
            /\ note' = [Quiet EXCEPT !.entered = "download_data",
                                     !.wrote = "DOWNLOAD_DATA", !.notified = TRUE]
    /\ UNCHANGED <<connection, device_info, running, read_threads, stale_thread, rx>>
    /\ DrvFrame

\* download_data, one turn of the loop of lines 161-168, then lines 170-175,
\* or the except branch 177-182
DownloadRead ==
    /\ pc = "dl_read"
    /\ \E r \in ReadOutcomes :
          /\ rx' = r.rest
          /\ IF r.exc
             THEN /\ status' = "ERROR"
                  /\ last_cb' = "ERROR"
                  /\ blocks' = <<>>
                  /\ ret' = "List"
                  /\ pc' = "idle"
                  /\ note' = [Quiet EXCEPT !.notified = TRUE]
             ELSE IF r.msg = NoMsg \/ r.msg.kind = "END_DATA"
             THEN /\ status' = "CONNECTED"
                  /\ last_cb' = "CONNECTED"
                  /\ ret' = "List"
                  /\ pc' = "idle"
                  /\ note' = [Quiet EXCEPT !.notified = TRUE,
                                           !.ended = (r.msg.kind = "END_DATA")]
                  /\ UNCHANGED blocks
             ELSE /\ blocks' = Append(blocks, r.msg)
                  /\ note' = Quiet
                  /\ UNCHANGED <<status, last_cb, ret, pc>>
    /\ UNCHANGED <<connection, device_info, running, read_threads, stale_thread, call,
                   dev_pending, dl_sent, stolen>>
    /\ DrvFrame

\* _read_loop, lines 207-213: one turn that finds bytes waiting
ReadLoopRead ==
    /\ read_threads > 0
    /\ running
    /\ connection = "open"
    /\ rx # <<>>
    /\ stolen' = stolen \cup {rx[i].kind : i \in 1..Len(rx)}
    /\ rx' = <<>>
    /\ note' = Quiet
    /\ UNCHANGED <<status, connection, device_info, running, read_threads, stale_thread, pc, call,
                   ret, blocks, dev_pending, last_cb, dl_sent>>
    /\ DrvFrame

\* _read_loop, line 207: the loop condition fails and the thread ends
ReadLoopExit(followed) ==
    /\ read_threads > (IF stale_thread /\ ~followed THEN 1 ELSE 0)
    /\ followed => stale_thread
    /\ ~(running /\ connection = "open")
    /\ read_threads' = read_threads - 1
    /\ stale_thread' = (stale_thread /\ ~followed)
    /\ note' = Quiet
    /\ UNCHANGED <<status, connection, device_info, running, pc, call, ret, blocks,
                   rx, dev_pending, last_cb, dl_sent, stolen>>
    /\ DrvFrame

\* the device puts its next message on the line
DeviceSend ==
    /\ dev_pending # <<>>
    /\ connection = "open"
    /\ rx' = Append(rx, Head(dev_pending))
    /\ dev_pending' = Tail(dev_pending)
    /\ dl_sent' = IF Head(dev_pending).kind = "BLOCK"
                  THEN Append(dl_sent, Head(dev_pending)) ELSE dl_sent
    /\ note' = Quiet
    /\ UNCHANGED <<status, connection, device_info, running, read_threads, stale_thread, pc, call,
                   ret, blocks, last_cb, stolen>>
    /\ DrvFrame

DrvNext ==
    \/ Connect
    \/ ConnectOpen
    \/ ConnectHandshake
    \/ Disconnect
    \/ DisconnectFinish
    \/ StartRecording
    \/ StartRecordingReply
    \/ StopRecording
    \/ StopRecordingReply
    \/ DownloadData
    \/ DownloadRead
    \/ ReadLoopRead
    \/ \E followed \in BOOLEAN : ReadLoopExit(followed)
    \/ DeviceSend

SpecDriver == DrvInit /\ [][DrvNext]_vars

\* a call that has been entered runs to its return: every blocking read has a
\* timeout and join(timeout=2.0) returns
CallerStep ==
    \/ ConnectOpen
    \/ ConnectHandshake
    \/ DisconnectFinish
    \/ StartRecordingReply
    \/ StopRecordingReply
    \/ DownloadRead

\* The driver with every read thread scheduled fairly (a thread whose loop
\* condition is false again and again does get to test it), the device
\* sending what it has to send, and entered calls running to their return.
SpecDriverFair ==
    /\ DrvInit
    /\ [][DrvNext]_vars
    /\ WF_vars(ReadLoopRead)
    /\ \A followed \in BOOLEAN : SF_vars(ReadLoopExit(followed))
    /\ WF_vars(DeviceSend)
    /\ WF_vars(CallerStep)

\* -------------------------------------------------------------- DataStorage
\* Everything but the storage at rest.
StoFrame == UNCHANGED <<coreVars, parVars, drvVars>>

StoInit ==
    /\ init_raised = "none"
    /\ sample_rate \in {r \in SampleRates : r >= 360}
    /\ min_hr = DefaultMinHr
    /\ max_hr = DefaultMaxHr
    /\ ecg = <<>>
    /\ op = "none"
    /\ raised = "none"
    /\ peaks = <<>>
    /\ rr_intervals = <<>>
    /\ result = NoResult
    /\ compression_ratio = Rat(0)
    /\ artifact = NoResult
    /\ processed = NoResult
    /\ ParIdle
    /\ DrvIdle
    /\ StoIdle

\* sqlite3's adapter writes a datetime as its ISO text
adapt_datetime(d) == <<"iso", d>>

\* datetime.fromisoformat
fromisoformat(t) == t[2]

\* PatientRecord values handed to store_patient; name "None" is a missing
\* name, medical_record_number "None" a missing number. age, gender and
\* created_at are bound and read back like name and updated_at.
PatientRecords ==
    [patient_id : PatientIds,
     name : {"Ana", "Luz", "None"},
     medical_record_number : {"m1", "m2", "None"},
     updated_at : {"t1", "t2"}]

\* the row store_patient binds, lines 118-126
PatientRow(patient) ==
    [patient_id |-> patient.patient_id,
     name |-> patient.name,
     medical_record_number |-> patient.medical_record_number,
     updated_at |-> adapt_datetime(patient.updated_at)]

\* INSERT OR REPLACE deletes every row that conflicts with the new one on the
\* PRIMARY KEY patient_id or on the UNIQUE medical_record_number (NULLs never
\* conflict).
ReplacedRows(row) ==
    {r \in patients :
        \/ r.patient_id = row.patient_id
        \/ /\ row.medical_record_number # "None"
           /\ r.medical_record_number = row.medical_record_number}

\* retrieve_patient
retrieve_patient(patient_id) ==
    IF \E r \in patients : r.patient_id = patient_id
    THEN LET row == CHOOSE r \in patients : r.patient_id = patient_id
         IN  [patient_id |-> row.patient_id,
              name |-> row.name,
              medical_record_number |-> row.medical_record_number,
              updated_at |-> fromisoformat(row.updated_at)]
    ELSE NoRow

\* store_patient. name TEXT NOT NULL makes the INSERT raise; the except branch
\* returns False without closing the connection, whose open transaction keeps
\* the database locked until the connection object is collected. While the
\* lock is held every write times out and returns False.
StorePatient ==
    \E patient \in PatientRecords :
        /\ IF db_locked \/ patient.name = "None"
           THEN /\ sto' = [op |-> "store_patient", patient |-> patient, ret |-> FALSE]
                /\ db_locked' = TRUE
                /\ UNCHANGED <<patients, last_patient>>
           ELSE /\ patients' = (patients \ ReplacedRows(PatientRow(patient)))
                                  \cup {PatientRow(patient)}
                /\ last_patient' = [last_patient EXCEPT ![patient.patient_id] = patient]
                /\ sto' = [op |-> "store_patient", patient |-> patient, ret |-> TRUE]
                /\ UNCHANGED db_locked
        /\ UNCHANGED <<ecg_records, data_files>>
        /\ StoFrame

\* retrieve_patient is called
RetrievePatient ==
    \E patient_id \in PatientIds :
        /\ sto' = [op |-> "retrieve_patient", patient_id |-> patient_id,
                   ret |-> retrieve_patient(patient_id)]
        /\ UNCHANGED <<patients, ecg_records, data_files, db_locked, last_patient>>
        /\ StoFrame

\* the interpreter collects the leaked connection, which releases the lock
CollectGarbage ==
    /\ db_locked
    /\ db_locked' = FALSE
    /\ sto' = NoCall
    /\ UNCHANGED <<patients, ecg_records, data_files, last_patient>>
    /\ StoFrame

PatientsNext ==
    \/ StorePatient
    \/ RetrievePatient
    \/ CollectGarbage

SpecPatients == StoInit /\ [][PatientsNext]_vars

\* Python values stored as JSON: None, a dict or a list with so many items.
PyNone == [py |-> "None", items |-> 0]

Dict(k) == [py |-> "dict", items |-> k]

List(k) == [py |-> "list", items |-> k]

\* a NULL column
SqlNull == [sql |-> "NULL", py |-> "None", items |-> 0]

\* json.dumps(v): a TEXT column ('null', '{}', '[]' included)
json_dumps(v) == [sql |-> "TEXT", py |-> v.py, items |-> v.items]

\* json.loads(c) of a TEXT column
json_loads(c) == [py |-> c.py, items |-> c.items]

\* Python truth of a value: None, {} and [] are false
Truthy(v) == v.py # "None" /\ v.items > 0

\* json.dumps(v) if v else None
dumps_or_null(v) == IF Truthy(v) THEN json_dumps(v) ELSE SqlNull

\* json.loads(c) if c else None: every JSON text is a non-empty string
loads_or_none(c) == IF c.sql = "TEXT" THEN json_loads(c) ELSE PyNone

\* os.path.join(self.data_dir, f"{record_id}.ecg.gz")
DataFilePath(record_id) == <<"ecg_data", record_id, "ecg.gz">>

\* ECGRecord values handed to store_ecg_data. patient_id, device_id,
\* duration_seconds and sample_rate are bound and read back like record_id.
EcgRecords ==
    [record_id : RecordIds,
     recording_date : {"t1"},
     data_file_path : {<<>>},
     analysis_results : {PyNone, Dict(0), Dict(1)},
     quality_metrics : {PyNone, Dict(0), Dict(1)},
     annotations : {PyNone, List(0), List(1)}]

SampleLists == {<<>>, <<1, 6>>}

\* the row store_ecg_data binds, lines 154-170
EcgRow(rec) ==
    [record_id |-> rec.record_id,
     recording_date |-> adapt_datetime(rec.recording_date),
     data_file_path |-> rec.data_file_path,
     analysis_results |-> dumps_or_null(rec.analysis_results),
     quality_metrics |-> dumps_or_null(rec.quality_metrics),
     annotations |-> dumps_or_null(rec.annotations)]

\* retrieve_ecg_data
retrieve_ecg_data(record_id) ==
    LET row == ecg_records[record_id]
    IN  IF row = NoRow THEN NoRow
        ELSE [record |->
                [record_id |-> row.record_id,
                 recording_date |-> fromisoformat(row.recording_date),
                 data_file_path |-> row.data_file_path,
                 analysis_results |-> loads_or_none(row.analysis_results),
                 quality_metrics |-> loads_or_none(row.quality_metrics),
                 annotations |-> loads_or_none(row.annotations)],
              data |-> IF data_files[record_id] # NoFile
                       THEN data_files[record_id] ELSE <<>>]

\* store_ecg_data: the file is written, the record's path is set, then the
\* row replaces the one with the same record_id; a locked database makes the
\* INSERT raise, which returns False
StoreEcgData ==
    \E rec \in EcgRecords, data \in SampleLists :
        LET stored == [rec EXCEPT !.data_file_path = DataFilePath(rec.record_id)]
        IN  /\ data_files' = [data_files EXCEPT ![rec.record_id] = data]
            /\ IF db_locked
               THEN UNCHANGED ecg_records
               ELSE ecg_records' = [ecg_records EXCEPT ![rec.record_id] = EcgRow(stored)]
            /\ sto' = [op |-> "store_ecg_data", ecg_record |-> stored,
                       ecg_data |-> data, ret |-> ~db_locked]
            /\ UNCHANGED <<patients, db_locked, last_patient>>
            /\ StoFrame

\* update_analysis_results: the UPDATE changes the row with that record_id,
\* if there is one, and the call returns True either way
UpdateAnalysisResults ==
    \E record_id \in RecordIds, a \in {PyNone, Dict(0), Dict(1)}, q \in {PyNone, Dict(1)} :
        /\ IF db_locked \/ ecg_records[record_id] = NoRow
           THEN UNCHANGED ecg_records
           ELSE ecg_records' = [ecg_records EXCEPT ![record_id] =
                    [@ EXCEPT !.analysis_results = json_dumps(a),
                              !.quality_metrics = dumps_or_null(q)]]
        /\ sto' = [op |-> "update_analysis_results", record_id |-> record_id,
                   analysis_results |-> a, quality_metrics |-> q,
                   before |-> retrieve_ecg_data(record_id), ret |-> ~db_locked]
        /\ UNCHANGED <<patients, data_files, db_locked, last_patient>>
        /\ StoFrame

\* retrieve_ecg_data is called
RetrieveEcgData ==
    \E record_id \in RecordIds :
        /\ sto' = [op |-> "retrieve_ecg_data", record_id |-> record_id,
                   ret |-> retrieve_ecg_data(record_id)]
        /\ UNCHANGED <<patients, ecg_records, data_files, db_locked, last_patient>>
        /\ StoFrame

\* The record store, started with the database free or still locked by an
\* earlier failed store_patient.
EcgInit ==
    /\ init_raised = "none"
    /\ sample_rate \in {r \in SampleRates : r >= 360}
    /\ min_hr = DefaultMinHr
    /\ max_hr = DefaultMaxHr
    /\ ecg = <<>>
    /\ op = "none"
    /\ raised = "none"
    /\ peaks = <<>>
    /\ rr_intervals = <<>>
    /\ result = NoResult
    /\ compression_ratio = Rat(0)
    /\ artifact = NoResult
    /\ processed = NoResult
    /\ ParIdle
    /\ DrvIdle
    /\ patients = {}
    /\ ecg_records = [r \in RecordIds |-> NoRow]
    /\ data_files = [r \in RecordIds |-> NoFile]
    /\ db_locked \in BOOLEAN
    /\ last_patient = [q \in PatientIds |-> NoRow]
    /\ sto = NoCall

EcgNext ==
    \/ StoreEcgData
    \/ UpdateAnalysisResults
    \/ RetrieveEcgData
    \/ CollectGarbage

SpecEcgStore == EcgInit /\ [][EcgNext]_vars

\* ================================================================== claims
Analysed == op = "analyze"
Compressed == op = "compress"
Processed == op = "process"

HeartRhythmType == {"normal", "tachycardia", "bradycardia", "arrhythmia", "fibrillation"}

IsFlat(s) == \A i, j \in 1..Len(s) : s[i] = s[j]

InPeaks(i) == \E k \in 1..Len(peaks) : peaks[k] = i

EquallySpaced(pk, d) == \A k \in 1..(Len(pk) - 1) : pk[k + 1] - pk[k] = d

RatioInUnitInterval(r) == 0 < r[1] /\ r[1] <= r[2]

\* C1: after every analysis the returned heart_rate lies in [min_hr, max_hr]
\* (fewer than 2 peaks giving 0 clamped up to min_hr).
C1_HeartRateWithinLimits ==
    Analysed =>
        /\ RatLeq(Rat(min_hr), result.heart_rate)
        /\ RatLeq(result.heart_rate, Rat(max_hr))

\* C2: the rhythm is Bradycardia iff heart_rate < 60, Tachycardia iff
\* heart_rate > 100, and Normal for 60 <= heart_rate <= 100, both inclusive.
C2_RhythmRule ==
    Analysed =>
        LET hr == result.heart_rate
            r == result.rhythm_type
        IN  /\ r \in HeartRhythmType
            /\ (r = "bradycardia") <=> RatLess(hr, Rat(60))
            /\ (r = "tachycardia") <=> RatLess(Rat(100), hr)
            /\ (RatLeq(Rat(60), hr) /\ RatLeq(hr, Rat(100))) => r = "normal"

\* an analysis whose heart rate is exactly the upper boundary 100 and Normal
C2_BoundaryIsNormal ==
    /\ Analysed
    /\ RatEq(result.heart_rate, Rat(100))
    /\ result.rhythm_type = "normal"

\* C3: index i is a detected peak iff 1 <= i <= n-2, sample[i] is strictly
\* greater than both neighbours and strictly greater than half the standard
\* deviation of the segment (std^2 = (n * sum x^2 - (sum x)^2) / n^2).
C3_PeakIffLocalMaxAboveThreshold ==
    Analysed =>
        LET n == Len(ecg)
            S == SumSeq(ecg)
            Q == SumSeq([k \in 1..n |-> ecg[k] * ecg[k]])
            V == n * Q - S * S
            IsPeak(i) == /\ 1 <= i /\ i <= n - 2
                         /\ At(ecg, i) > At(ecg, i - 1)
                         /\ At(ecg, i) > At(ecg, i + 1)
                         /\ At(ecg, i) > 0
                         /\ 4 * At(ecg, i) * At(ecg, i) * n * n > V
        IN  /\ \A k \in 1..Len(peaks) : peaks[k] \in 1..(n - 2)
            /\ \A i \in 0..(n - 1) : InPeaks(i) <=> IsPeak(i)

\* an analysis that reported a peak, rejected a positive strict local maximum
\* for being under the threshold, and left out index 0 although the first
\* sample is above its neighbour
C3_PeakBesideRejectedCandidates ==
    /\ Analysed
    /\ peaks # <<>>
    /\ \E i \in 1..(Len(ecg) - 2) :
          /\ At(ecg, i) > At(ecg, i - 1) /\ At(ecg, i) > At(ecg, i + 1)
          /\ At(ecg, i) > 0
          /\ ~InPeaks(i)
    /\ At(ecg, 0) > At(ecg, 1)
    /\ ~InPeaks(0)

\* C4: with fewer than 2 detected peaks the analysis returns normally with
\* heart_rate = 0 and no RR interval.
C4_FewPeaksGiveZeroRate ==
    (Analysed /\ Len(peaks) < 2) =>
        /\ raised = "none"
        /\ result # NoResult
        /\ RatEq(result.heart_rate, Rat(0))
        /\ rr_intervals = <<>>

\* an analysis of a segment with exactly one detected peak
C4_SinglePeakAnalysed ==
    /\ Analysed
    /\ Len(peaks) = 1
    /\ RatEq(result.heart_rate, Rat(0))

\* C5: with k >= 2 peaks the returned rate is 60*fs*(k-1)/(last - first)
\* clamped into [min_hr, max_hr] (the unclamped rate being that quotient at a
\* positive sample rate); for peaks equally spaced d samples apart it is
\* 60*fs/d clamped.
C5_RateFromPeakSpacing ==
    (Analysed /\ Len(peaks) >= 2) =>
        LET k == Len(peaks)
            span == peaks[k] - peaks[1]
            general == <<60 * sample_rate * (k - 1), span>>
        IN  /\ span > 0
            /\ RatEq(result.heart_rate, Clamp(general, min_hr, max_hr))
            /\ sample_rate > 0 => RatEq(unclamped_rate(peaks, sample_rate), general)
            /\ \A d \in 1..Len(ecg) :
                  EquallySpaced(peaks, d) =>
                      RatEq(result.heart_rate,
                            Clamp(<<60 * sample_rate, d>>, min_hr, max_hr))

\* an analysis of three or more equally spaced peaks whose rate is not clamped
C5_PulseTrainInsideLimits ==
    /\ Analysed
    /\ sample_rate > 0
    /\ Len(peaks) >= 3
    /\ \E d \in 1..Len(ecg) : EquallySpaced(peaks, d)
    /\ RatLess(Rat(min_hr), result.heart_rate)
    /\ RatLess(result.heart_rate, Rat(max_hr))

\* A segment with clearly detectable periodic beats.
PulseTrain == Tile(<<0 - 1, 6, 0 - 1>>, EdgePad + 1)

\* C6: analysing a flat-line segment gives an empty peak set, heart_rate =
\* min_hr, not a high-confidence Normal, and a confidence lower than the one
\* reported for a segment with clearly detectable periodic beats.
C6_FlatLineLowConfidence ==
    (Analysed /\ ecg # <<>> /\ IsFlat(ecg)) =>
        /\ peaks = <<>>
        /\ RatEq(result.heart_rate, Rat(min_hr))
        /\ result.confidence_score <
              calculate_confidence(PulseTrain,
                  classify_rhythm(PulseTrain,
                      calculate_heart_rate(PulseTrain, sample_rate, min_hr, max_hr)))

\* C7: compress_ecg_data with a ratio outside (0, 1] fails (with
\* CompressionError; any exception is accepted here as that failure) and
\* returns no artifact; with a ratio in (0, 1] it returns an artifact.
C7_RatioOutsideUnitIntervalRejected ==
    Compressed =>
        IF RatioInUnitInterval(compression_ratio)
        THEN raised = "none" /\ artifact # NoResult
        ELSE raised # "none" /\ artifact = NoResult

\* round(p / q) for q > 0, p >= 0, halves to even as Python's round
RoundHalfEven(p, q) ==
    LET fl == p \div q
        twice == 2 * (p % q)
    IN  IF twice < q THEN fl
        ELSE IF twice > q THEN fl + 1
        ELSE IF fl % 2 = 0 THEN fl ELSE fl + 1

Abs(x) == IF x < 0 THEN 0 - x ELSE x

\* C8: for a ratio r in (0, 1] the artifact's encoded length, equal to
\* metadata.compressed_size, is within one sample of round(L * r).
C8_EncodedLengthNearRound ==
    (Compressed /\ RatioInUnitInterval(compression_ratio)) =>
        /\ raised = "none"
        /\ artifact # NoResult
        /\ Len(artifact.data) = artifact.metadata.compressed_size
        /\ Abs(Len(artifact.data)
               - RoundHalfEven(Len(ecg) * compression_ratio[1], compression_ratio[2])) <= 1

\* a compression whose length is the truncation, one below the rounded product
C8_TruncatedBelowRound ==
    /\ Compressed
    /\ RatioInUnitInterval(compression_ratio)
    /\ artifact # NoResult
    /\ Len(artifact.data) + 1
          = RoundHalfEven(Len(ecg) * compression_ratio[1], compression_ratio[2])

\* sample_rate is valid and every configured cutoff lies in (0, Nyquist)
CutoffsInRange ==
    /\ sample_rate > 0
    /\ 2 * HighpassCutoff[1] < sample_rate * HighpassCutoff[2]
    /\ 2 * LowpassCutoff < sample_rate
    /\ 2 * NotchFreq < sample_rate

\* C9: with a valid sample_rate and in-range cutoffs, process_raw_signal
\* succeeds on every segment of length >= 1 and returns a segment of the
\* input's length.
C9_FilterChainPreservesLength ==
    (Processed /\ CutoffsInRange /\ Len(ecg) >= 1) =>
        /\ raised = "none"
        /\ processed # NoResult
        /\ processed.len = Len(ecg)

\* C10: an empty segment or a non-positive sample_rate is rejected (with
\* InvalidSegmentError; any exception is accepted here as that rejection),
\* and neither an AnalysisResult nor a conditioned segment is returned.
C10_InvalidSegmentRejected ==
    ((Analysed \/ Processed) /\ (ecg = <<>> \/ sample_rate <= 0)) =>
        /\ raised # "none"
        /\ result = NoResult
        /\ processed = NoResult

\* C11: if a configured cutoff is <= 0 or >= sample_rate / 2 the pipeline
\* fails at construction (with FilterDesignError; any exception is accepted
\* here), so that no call is made on it and no filtered output is produced.
C11_BadCutoffFailsConstruction ==
    (Processed /\ ~CutoffsInRange) =>
        /\ init_raised # "none"
        /\ processed = NoResult

\* The configured irregularity threshold on the variance of the RR
\* intervals, in seconds squared (a standard deviation of 100 ms).
IrregularityThreshold == <<1, 100>>

\* variance of rr (rationals <<d, fs>>, fs > 0) exceeds thr
RRVarianceExceeds(rr, thr) ==
    LET k == Len(rr)
        fs == rr[1][2]
        S == SumSeq([i \in 1..k |-> rr[i][1]])
        Q == SumSeq([i \in 1..k |-> rr[i][1] * rr[i][1]])
    IN  thr[2] * (k * Q - S * S) > thr[1] * k * k * fs * fs

\* C14: for a heart rate in [60, 100] whose RR-interval variance exceeds the
\* irregularity threshold the classifier returns Arrhythmia, and every one of
\* the five rhythm types is an output of the classifier for some heart rate.
C14_IrregularRhythmIsArrhythmia ==
    (/\ Analysed
     /\ sample_rate > 0
     /\ RatLeq(Rat(60), result.heart_rate)
     /\ RatLeq(result.heart_rate, Rat(100))
     /\ RRVarianceExceeds(rr_intervals, IrregularityThreshold)) =>
        /\ result.rhythm_type = "arrhythmia"
        /\ {classify_rhythm(ecg, Rat(h)) : h \in 0..250} = HeartRhythmType

WellFormed == ecg # <<>> /\ sample_rate > 0

\* C15: the confidence score is not a fixed constant (so for the analysed
\* segment some other well-formed segment scores differently) and lies in
\* [0, 1], i.e. 0..100 hundredths.
C15_ConfidenceVariesWithSignal ==
    (Analysed /\ WellFormed) =>
        /\ 0 <= result.confidence_score /\ result.confidence_score <= 100
        /\ \E other \in Segments \ {<<>>} :
              calculate_confidence(other,
                  classify_rhythm(other,
                      calculate_heart_rate(other, sample_rate, min_hr, max_hr)))
                # result.confidence_score

\* C16: for a ratio in (0, 1] that retains at least as many samples as there
\* are detected R-peaks, every detected R-peak index is a retained index.
C16_CompressionRetainsPeaks ==
    (/\ Compressed
     /\ RatioInUnitInterval(compression_ratio)
     /\ artifact # NoResult
     /\ Len(artifact.data) >= Len(detect_r_peaks(ecg))) =>
        LET kept == artifact.reconstruction_params.indices
            pk == detect_r_peaks(ecg)
        IN  \A k \in 1..Len(pk) : \E j \in 1..Len(kept) : kept[j] = pk[k]

\* C17: the detected peaks are strictly increasing indices within [1, n-2]
\* (so within [0, n)), and at a positive sample rate every RR interval is
\* strictly positive.
C17_PeaksIncreasingIntervalsPositive ==
    Analysed =>
        /\ \A k \in 1..Len(peaks) : 0 <= peaks[k] /\ peaks[k] < Len(ecg)
        /\ \A k \in 1..Len(peaks) : 1 <= peaks[k] /\ peaks[k] <= Len(ecg) - 2
        /\ \A k \in 1..(Len(peaks) - 1) : peaks[k] < peaks[k + 1]
        /\ sample_rate > 0 =>
              \A k \in 1..Len(rr_intervals) :
                  rr_intervals[k][1] > 0 /\ rr_intervals[k][2] > 0

\* an analysis at a positive sample rate with three or more peaks
C17_SeveralPeaksAnalysed ==
    /\ Analysed
    /\ sample_rate > 0
    /\ Len(peaks) >= 3
    /\ Len(rr_intervals) = Len(peaks) - 1

\* no sample of s is above half the standard deviation of s
NoSampleAboveThreshold(s) ==
    LET n == Len(s)
        S == SumSeq(s)
        Q == SumSeq([k \in 1..n |-> s[k] * s[k]])
    IN  \A k \in 1..n : ~(s[k] > 0 /\ 4 * s[k] * s[k] * n * n > n * Q - S * S)

\* C18: on a well-formed input (non-empty segment, positive sample_rate)
\* analyze_ecg_segment returns an AnalysisResult and raises nothing; when no
\* sample exceeds the threshold the peak set is empty.
C18_WellFormedInputReturnsResult ==
    (Analysed /\ WellFormed) =>
        /\ raised = "none"
        /\ result # NoResult
        /\ result.rhythm_type \in HeartRhythmType
        /\ NoSampleAboveThreshold(ecg) => peaks = <<>>

\* an analysis of a noisy well-formed segment (several local maxima, none of
\* them accepted) that returned a result with an empty peak set
C18_NoisySegmentAnalysed ==
    /\ Analysed
    /\ WellFormed
    /\ result # NoResult
    /\ peaks = <<>>
    /\ Cardinality({i \in 1..(Len(ecg) - 2) :
            At(ecg, i) > At(ecg, i - 1) /\ At(ecg, i) > At(ecg, i + 1)}) >= 2

\* what analyze_ecg_segment returns for seg when it runs alone on an analyzer
\* with the constructor's limits
AloneResult(seg) ==
    LET heart_rate == calculate_heart_rate(seg, sample_rate, DefaultMinHr, DefaultMaxHr)
        rhythm == classify_rhythm(seg, heart_rate)
    IN  [heart_rate |-> heart_rate,
         rhythm_type |-> rhythm,
         confidence_score |-> calculate_confidence(seg, rhythm),
         abnormalities |-> detect_abnormalities(seg),
         timestamp |-> 0]

\* C12: an analysis of a segment returns, in every field, the value the first
\* analysis of that segment returned, whatever was analysed in between.
C12_RepeatedAnalysisIdentical ==
    \A w \in Workers :
        (w_pc[w] = "done" /\ history[w_seg[w]].runs >= 1) =>
            w_result[w] = history[w_seg[w]].first

\* a worker has just returned from a repeated analysis of a segment, after
\* analyses of another segment had returned as well
C12_SegmentAnalysedAgain ==
    \E w \in Workers :
        /\ w_pc[w] = "done"
        /\ history[w_seg[w]].runs >= 2
        /\ \E g \in ParSegments \ {w_seg[w]} : history[g].runs >= 1

\* C13: with the steps of two analyses interleaved in any order, each returns
\* what it returns when run alone, and no step changes sample_rate, min_hr or
\* max_hr.
C13_ConcurrentAnalysesIndependent ==
    /\ [](\A w \in Workers : w_pc[w] = "done" => w_result[w] = AloneResult(w_seg[w]))
    /\ [][sample_rate' = sample_rate /\ min_hr' = min_hr /\ max_hr' = max_hr]_vars

\* one worker has returned while the other is in the middle of its analysis
\* of a different segment, past its read of the limits
C13_ReturnedWhileOtherRuns ==
    \E w, v \in Workers :
        /\ w # v
        /\ w_pc[w] = "done"
        /\ w_pc[v] = "rhythm"
        /\ w_seg[w] # w_seg[v]
        /\ w_result[w] = AloneResult(w_seg[w])
        /\ Len(w_loc[v].peaks) >= 2

\* C19: while a command's reply is outstanding the read loop takes nothing of
\* it: no data block and no OK reaches on_data_received, and a download that
\* saw END_DATA returns every data block the device sent.
C19_ReadLoopLeavesRepliesToCaller ==
    /\ \A kind \in stolen : kind \notin {"BLOCK", "OK"}
    /\ (call = "download_data" /\ ret = "List" /\ note.ended) =>
          SelectSeq(blocks, LAMBDA m : m.kind = "BLOCK") = dl_sent

GuardedCalls == {"start_recording", "stop_recording", "download_data"}

\* C20: a guarded call made while the status is neither CONNECTED nor
\* RECORDING, or the connection is not open, returns False or an empty list,
\* writes nothing, leaves the status alone and makes no callback; RECORDING is
\* entered only from CONNECTED by start_recording reading an OK; the status
\* leaves ERROR only through connect or disconnect.
C20_CommandsGuardedByConnectionState ==
    [][LET refused == status \notin {"CONNECTED", "RECORDING"} \/ connection # "open"
       IN  /\ (note'.entered \in GuardedCalls /\ refused) =>
                 /\ pc' = "idle"
                 /\ ret' \in {"False", "List"}
                 /\ ret' = "List" => blocks' = <<>>
                 /\ note'.wrote = "none"
                 /\ dev_pending' = dev_pending
                 /\ status' = status
                 /\ ~note'.notified
                 /\ last_cb' = last_cb
           /\ (status' = "RECORDING" /\ status # "RECORDING") =>
                 /\ status = "CONNECTED"
                 /\ call = "start_recording"
                 /\ rx # <<>>
                 /\ Head(rx).kind = "OK"
           /\ status = "ERROR" => status' \in {"ERROR", "CONNECTING", "DISCONNECTED"}
      ]_vars

\* a command has just been refused on an open connection whose status is ERROR
C20_RefusedAfterError ==
    /\ status = "ERROR"
    /\ connection = "open"
    /\ note.entered \in GuardedCalls
    /\ note.rejected
    /\ ret \in {"False", "List"}
    /\ last_cb = "ERROR"

\* C21: whenever a call has returned, the status last passed to
\* on_status_changed is the current status (or no callback was made and the
\* status is still DISCONNECTED), and every step that changes the status makes
\* the callback with the new status.
C21_CallbackCarriesCurrentStatus ==
    /\ [](pc = "idle" =>
            \/ last_cb = status
            \/ last_cb = "none" /\ status = "DISCONNECTED")
    /\ [][status' # status => (note'.notified /\ last_cb' = status')]_vars

\* start_recording has just returned True and the callback was told RECORDING
C21_RecordingNotified ==
    /\ pc = "idle"
    /\ call = "start_recording"
    /\ ret = "True"
    /\ status = "RECORDING"
    /\ last_cb = "RECORDING"
    /\ note.notified

\* disconnect has returned: DISCONNECTED, device_info None, running False
DisconnectEndsDisconnected ==
    (pc = "idle" /\ call = "disconnect") =>
        /\ ret = "None"
        /\ status = "DISCONNECTED"
        /\ device_info = "none"
        /\ ~running

\* a connect whose handshake fails starts no thread and returns False with
\* status DISCONNECTED
FailedHandshakeStartsNoThread ==
    /\ (pc = "c_hs" /\ pc' = "d_join") =>
          /\ read_threads' = read_threads
          /\ ~running'
    /\ (pc = "d_join" /\ pc' = "idle" /\ call = "connect") =>
          /\ read_threads' = read_threads
          /\ ret' = "False"
          /\ status' = "DISCONNECTED"
          /\ ~running'

\* C22: disconnect ends with status DISCONNECTED, device_info None and running
\* False; a connect whose handshake fails ends DISCONNECTED, returns False and
\* starts no thread; and a read loop that was running when disconnect was
\* entered (any one of them: the followed thread) eventually terminates.
C22_DisconnectStopsReadLoop ==
    /\ []DisconnectEndsDisconnected
    /\ [][FailedHandshakeStartsNoThread]_vars
    /\ stale_thread ~> ~stale_thread

\* C23: at most one row per patient_id, and every patient that was stored is
\* retrievable with the fields last stored for that patient_id, whatever was
\* stored for other patients since.
C23_StorePatientTouchesOnlyItsRow ==
    /\ \A q \in PatientIds : Cardinality({r \in patients : r.patient_id = q}) <= 1
    /\ \A q \in PatientIds :
          last_patient[q] # NoRow => retrieve_patient(q) = last_patient[q]

\* C24: a record stored with success is retrieved with every field and the
\* samples as stored; an update of a stored record is retrieved with the new
\* analysis_results and, when quality_metrics was omitted, the old
\* quality_metrics; an update of a record that is not stored changes nothing
\* and does not return True.
C24_EcgRoundTrip ==
    /\ (sto.op = "store_ecg_data" /\ sto.ret) =>
          retrieve_ecg_data(sto.ecg_record.record_id) =
              [record |-> sto.ecg_record, data |-> sto.ecg_data]
    /\ (sto.op = "update_analysis_results" /\ sto.ret /\ sto.before # NoRow) =>
          /\ retrieve_ecg_data(sto.record_id).record.analysis_results = sto.analysis_results
          /\ sto.quality_metrics = PyNone =>
                retrieve_ecg_data(sto.record_id).record.quality_metrics =
                    sto.before.record.quality_metrics
    /\ (sto.op = "update_analysis_results" /\ sto.before = NoRow) =>
          /\ ~sto.ret
          /\ retrieve_ecg_data(sto.record_id) = NoRow

\* the artifact's indices, data and sizes agree with each other and with the
\* segment it was made from
ArtifactConsistent ==
    LET indices == artifact.reconstruction_params.indices
        L == Len(ecg)
    IN  /\ Len(indices) = Len(artifact.data)
        /\ \A k \in 1..Len(indices) :
              /\ 0 <= indices[k] /\ indices[k] <= L - 1
              /\ k > 1 => indices[k - 1] <= indices[k]
              /\ artifact.data[k] = At(ecg, indices[k])
        /\ artifact.metadata.compressed_size = Len(artifact.data)
        /\ artifact.metadata.original_size = L
        /\ artifact.metadata.compressed_size <= artifact.metadata.original_size
        /\ Len(indices) >= 2 =>
              /\ indices[1] = 0
              /\ indices[Len(indices)] = L - 1

\* C25: for a segment of length >= 1 and a ratio in (0, 1], compress_ecg_data
\* returns an artifact whose indices are non-decreasing and inside the
\* segment, whose data are the samples at those indices, whose sizes agree,
\* and which keeps the first and the last sample when it keeps at least two;
\* the call leaves the segment as it was.
C25_ArtifactConsistent ==
    /\ []((Compressed /\ Len(ecg) >= 1 /\ RatioInUnitInterval(compression_ratio)) =>
            /\ raised = "none"
            /\ artifact # NoResult
            /\ ArtifactConsistent)
    /\ [][op' = "compress" => ecg' = ecg]_vars

\* a compression that kept at least two samples, fewer than the segment has,
\* among them a sample that does not follow its predecessor directly
C25_SparseArtifact ==
    /\ Compressed
    /\ RatioInUnitInterval(compression_ratio)
    /\ artifact # NoResult
    /\ 2 <= Len(artifact.data)
    /\ Len(artifact.data) < Len(ecg)
    /\ \E k \in 2..Len(artifact.data) :
          artifact.reconstruction_params.indices[k]
              > artifact.reconstruction_params.indices[k - 1] + 1

====
